---- MODULE Spec2Model ----
(***************************************************************************)
(* Model of the dual-chatbot engine of the language learning app:          *)
(*   src/chatbot.py  Chatbot, DualChatbot                                  *)
(*   src/app.py      the caller (exchange-count table, generate loop)      *)
(* The language model behind predict() is a black box: every call either   *)
(* returns some utterance of a small set or raises.                        *)
(***************************************************************************)
EXTENDS Integers, Sequences, FiniteSets, TLC

\* ------------------------------------------------------------ bounds
\* step() calls per session in Spec
MaxSteps == 2
\* step() calls per session in SpecTwo
TwoSteps == 1
\* step() calls per session in SpecCfg
CfgSteps == 1
\* step() calls per session in SpecLong
LongSteps == 5
\* runs of app.py after the page was loaded, in SpecApp
MaxRuns == 3
\* rounds of a generate run in which the chat model's utterances vary, in SpecApp
VariedRounds == 1

\* ------------------------------------------------------------ value sets
Sessions == {"A", "B"}
Dicts == {"d1", "d2"}
RoleKeys == <<"role1", "role2">>

\* what the chat model can answer
Utterances == {"u1", "u2"}
OneUtterance == {"u1"}
Translations == {"t1"}
\* a call of the chat model that raises
Failure == "Failure"
KeyError == "KeyError"

Engines == {"OpenAI", "Other"}
LearningModes == {"Conversation", "Debate", "Quiz"}
ProficiencyLevels == {"Beginner", "Intermediate", "Advanced", "Native"}
SessionLengths == {"Short", "Long", "Medium"}
Languages == {"English", "German"}
Scenarios == {"at a bakery"}
\* what the chat model can answer to the summary prompt
Summaries == {"s1"}
\* the buttons of app.py; "none" is a run started by a sidebar widget
ViewButtons == {"Translate to English", "Show original", "Play audio"}

\* the role dictionaries a caller passes in (app.py builds the first shape in
\* Conversation mode, the second in Debate mode)
InitialRoleDict(d) ==
    IF d = "d1"
    THEN [role1 |-> [name |-> "Customer", action |-> "ordering bread"],
          role2 |-> [name |-> "Baker", action |-> "serving customer"]]
    ELSE [role1 |-> [name |-> "Proponent"],
          role2 |-> [name |-> "Opponent"]]

\* ------------------------------------------------------------ Chatbot

\* exchange_counts_dict of Chatbot._specify_system_message, with Short/Debate
\* miscounted
WrongExchangeCountsDict ==
    [Short |-> [Conversation |-> 8, Debate |-> 8],
     Long |-> [Conversation |-> 16, Debate |-> 8]]

\* exchange_counts_dict of Chatbot._specify_system_message
exchange_counts_dict ==
    [Short |-> [Conversation |-> 8, Debate |-> 4],
     Long |-> [Conversation |-> 16, Debate |-> 8]]

\* exchange_counts_dict[self.session_length][self.learning_mode], as the text
\* the f-string makes of it; a missing key raises KeyError
ExchangeCounts(session_length, learning_mode) ==
    IF session_length \notin DOMAIN exchange_counts_dict THEN KeyError
    ELSE IF learning_mode \notin DOMAIN exchange_counts_dict[session_length] THEN KeyError
    ELSE ToString(exchange_counts_dict[session_length][learning_mode])

\* argument_num_dict of Chatbot._specify_system_message
argument_num_dict == [Beginner |-> 4, Intermediate |-> 6, Advanced |-> 8]

\* argument_num_dict[self.proficiency_level] inside the Debate f-string
ArgumentNum(proficiency_level) ==
    IF proficiency_level \notin DOMAIN argument_num_dict THEN KeyError
    ELSE ToString(argument_num_dict[proficiency_level])

\* the branch on proficiency_level with its last elif written as an else
LenientLangRequirement(proficiency_level) ==
    CASE proficiency_level = "Beginner" -> "use basic and simple vocabulary, avoid idioms"
      [] proficiency_level = "Intermediate" -> "use a wider range of vocabulary, some idioms"
      [] OTHER -> "use sophisticated vocabulary, idioms, technical language"

\* the if/elif/else on proficiency_level; the else branch raises KeyError
lang_requirement(proficiency_level) ==
    CASE proficiency_level = "Beginner" -> "use basic and simple vocabulary, avoid idioms"
      [] proficiency_level = "Intermediate" -> "use a wider range of vocabulary, some idioms"
      [] proficiency_level = "Advanced" -> "use sophisticated vocabulary, idioms, technical language"
      [] OTHER -> KeyError

\* A prompt is the f-string as the sequence of its pieces: literal text, and
\* the value substituted for each replacement field.
Lit(text) == [k |-> "lit", v |-> text]
Sub(field, value) == [k |-> field, v |-> value]

\* role['name'], role['action']: a missing key raises KeyError
RoleField(role, f) == IF f \in DOMAIN role THEN role[f] ELSE KeyError

\* the Conversation branch of the prompt
ConversationPrompt(bot, role, oppo_role, counts, requirement) ==
    << Lit("You are an AI that is good at role-playing. You are simulating a typical conversation happened"),
       Sub("scenario", bot.scenario),
       Lit("In this scenario, you are playing as a"),
       Sub("role.name", RoleField(role, "name")),
       Sub("role.action", RoleField(role, "action")),
       Lit(", speaking to a"),
       Sub("oppo_role.name", RoleField(oppo_role, "name")),
       Sub("oppo_role.action", RoleField(oppo_role, "action")),
       Lit("Your conversation should only be conducted in"),
       Sub("language", bot.language),
       Lit("Do not translate. This simulated"),
       Sub("learning_mode", bot.learning_mode),
       Lit("is designed for"),
       Sub("language", bot.language),
       Lit("language learners to learn real-life conversations in"),
       Sub("language", bot.language),
       Lit("You should assume the learners' proficiency level in"),
       Sub("language", bot.language),
       Lit("is"),
       Sub("proficiency_level", bot.proficiency_level),
       Lit("Therefore, you should"),
       Sub("lang_requirement", requirement),
       Lit("You should finish the conversation within"),
       Sub("exchange_counts", counts),
       Lit("exchanges with the"),
       Sub("oppo_role.name", RoleField(oppo_role, "name")),
       Lit("Make your conversation with"),
       Sub("oppo_role.name", RoleField(oppo_role, "name")),
       Lit("natural and typical in the considered scenario in"),
       Sub("language", bot.language),
       Lit("cultural.") >>

\* the Debate branch of the prompt
DebatePrompt(bot, role, oppo_role, counts, requirement) ==
    << Lit("You are an AI that is good at debating. You are now engaged in a debate with the following topic:"),
       Sub("scenario", bot.scenario),
       Lit("In this debate, you are taking on the role of a"),
       Sub("role.name", RoleField(role, "name")),
       Lit("Always remember your stances in the debate. Your debate should only be conducted in"),
       Sub("language", bot.language),
       Lit("Do not translate. This simulated debate is designed for"),
       Sub("language", bot.language),
       Lit("language learners to learn"),
       Sub("language", bot.language),
       Lit("You should assume the learners' proficiency level in"),
       Sub("language", bot.language),
       Lit("is"),
       Sub("proficiency_level", bot.proficiency_level),
       Lit("Therefore, you should"),
       Sub("lang_requirement", requirement),
       Lit("You will exchange opinions with another AI (who plays the"),
       Sub("oppo_role.name", RoleField(oppo_role, "name")),
       Lit("role)"),
       Sub("exchange_counts", counts),
       Lit("times. Everytime you speak, you can only speak no more than"),
       Sub("argument_num", ArgumentNum(bot.proficiency_level)),
       Lit("sentences.") >>

\* the last clause without the test of self.starter
AlwaysLeading(bot, oppo_role) ==
    << Lit("You are leading the"), Sub("learning_mode", bot.learning_mode), Lit(".") >>

\* the clause appended for the bot that speaks first / second
StarterClause(bot, oppo_role) ==
    IF bot.starter
    THEN << Lit("You are leading the"), Sub("learning_mode", bot.learning_mode), Lit(".") >>
    ELSE << Lit("Wait for the"), Sub("oppo_role.name", RoleField(oppo_role, "name")),
            Lit("'s statement.") >>

\* a replacement field whose lookup raised
Raised(prompt) == \E i \in 1..Len(prompt) : prompt[i].v = KeyError

\* Chatbot._specify_system_message for a bot whose settings are set; role and
\* oppo_role are the role-dictionary entries the bot refers to. The result is
\* the prompt, or the KeyError raised on the way.
SpecifySystemMessage(bot, role, oppo_role) ==
    LET counts == ExchangeCounts(bot.session_length, bot.learning_mode)
        requirement == lang_requirement(bot.proficiency_level)
        body == IF bot.learning_mode = "Conversation"
                THEN ConversationPrompt(bot, role, oppo_role, counts, requirement)
                ELSE DebatePrompt(bot, role, oppo_role, counts, requirement)
        prompt == body \o StarterClause(bot, oppo_role)
    IN  IF \/ counts = KeyError
           \/ requirement = KeyError
           \/ bot.learning_mode \notin {"Conversation", "Debate"}
           \/ Raised(prompt)
        THEN [error |-> KeyError, prompt |-> << >>]
        ELSE [error |-> "none", prompt |-> prompt]

\* Chatbot.__init__ for a supported engine: the llm and an empty memory.
\* builtBy is a history field: the session whose construction made the bot.
NewChatbot(engine, s) ==
    [llm |-> "gpt-3.5-turbo", memory |-> << >>, builtBy |-> s]

\* Chatbot.instruct: the settings are stored, then the prompt is compiled and
\* the conversation chain made; when the prompt raises, the bot keeps the
\* settings and has no conversation attribute.
Instruct(bot, roleKey, oppoKey, cfg, starter, dict) ==
    LET settings == [role |-> roleKey, oppo_role |-> oppoKey,
                     language |-> cfg.language, scenario |-> cfg.scenario,
                     session_length |-> cfg.session_length,
                     proficiency_level |-> cfg.proficiency_level,
                     learning_mode |-> cfg.learning_mode, starter |-> starter]
        set == settings @@ bot
        msg == SpecifySystemMessage(set, dict[roleKey], dict[oppoKey])
    IN  IF msg.error = "none"
        THEN [conversation |-> [prompt |-> msg.prompt]] @@ set
        ELSE set

\* the bot has its conversation attribute (instruct went through)
HasConversation(bot) == "conversation" \in DOMAIN bot

\* ------------------------------------------------------------ state
VARIABLES
    roleDicts,      \* the caller's role dictionaries, which DualChatbot mutates in place
    sessions,       \* the DualChatbot objects
    constructed,    \* per session: "none", "ok", or the error its construction raised
    bot1_mesg,      \* the caller's store of role1 messages (st.session_state.bot1_mesg)
    bot2_mesg,      \* the caller's store of role2 messages
    closeCalled,    \* history: the caller has tried close() on the session
    args,           \* history: per session, the arguments its constructor was called with
    log,            \* history: per session, one entry per step() call
    session_state,  \* the other keys of app.py's st.session_state
    page,           \* the buttons the last run of app.py put on the page
    runs            \* history: one entry per run of app.py after the page was loaded

vars == << roleDicts, sessions, constructed, bot1_mesg, bot2_mesg, closeCalled, args, log,
           session_state, page, runs >>

\* what the engine's own actions leave alone
app == << session_state, page, runs >>

\* no DualChatbot object (yet)
NoSession == [engine |-> "unset"]

Init ==
    /\ roleDicts = [d \in Dicts |-> InitialRoleDict(d)]
    /\ sessions = [s \in Sessions |-> NoSession]
    /\ constructed = [s \in Sessions |-> "none"]
    /\ bot1_mesg = [s \in Sessions |-> << >>]
    /\ bot2_mesg = [s \in Sessions |-> << >>]
    /\ closeCalled = [s \in Sessions |-> FALSE]
    /\ args = [s \in Sessions |-> [role_dict |-> "none", cfg |-> "none"]]
    /\ log = [s \in Sessions |-> << >>]
    /\ session_state = [batch_flag |-> FALSE, translate_flag |-> FALSE,
                        audio_flag |-> FALSE]
    /\ page = [generate |-> TRUE, view |-> FALSE]
    /\ runs = << >>

\* ------------------------------------------------------------ DualChatbot

\* every combination of the constructor's arguments
AllConfigs ==
    [engine : Engines, language : Languages, scenario : Scenarios,
     proficiency_level : ProficiencyLevels, learning_mode : LearningModes,
     session_length : SessionLengths]

\* the three enum arguments are of their documented values
ValidConfig(cfg) ==
    /\ cfg.learning_mode \in {"Conversation", "Debate"}
    /\ cfg.proficiency_level \in {"Beginner", "Intermediate", "Advanced"}
    /\ cfg.session_length \in {"Short", "Long"}

\* DualChatbot._reset_conversation_history
ResetConversationHistory(sess) ==
    [sess EXCEPT !.conversation_history = << >>,
                 !.input1 = "Start the conversation.",
                 !.input2 = ""]

\* the loop over role_dict.keys(): each entry of the caller's dictionary gets
\* a new Chatbot under the key 'chatbot', replacing one already there
AttachChatbots(dict, engine, s) ==
    [k \in DOMAIN dict |-> ("chatbot" :> NewChatbot(engine, s)) @@ dict[k]]

\* the two instruct calls of DualChatbot.__init__, role1 as the starter; the
\* second is not reached when the first raises
AssignRoles(dict, cfg) ==
    LET b1 == Instruct(dict.role1.chatbot, "role1", "role2", cfg, TRUE, dict)
        d1 == [dict EXCEPT !.role1.chatbot = b1]
        b2 == Instruct(d1.role2.chatbot, "role2", "role1", cfg, FALSE, d1)
    IN  IF HasConversation(b1) THEN [d1 EXCEPT !.role2.chatbot = b2] ELSE d1

\* both instruct calls went through
Instructed(dict) ==
    /\ HasConversation(dict.role1.chatbot)
    /\ HasConversation(dict.role2.chatbot)

\* DualChatbot.__init__(engine, role_dict, ...) as object s, role_dict being
\* the caller's dictionary d with the value dictValue: the dictionary as the
\* constructor leaves it, the object, and "ok" or the error raised
NewDualChatbot(dictValue, d, cfg, s) ==
    IF cfg.engine # "OpenAI"
    THEN \* Chatbot.__init__ raises for the first key
         [result |-> KeyError, dict |-> dictValue, sess |-> NoSession]
    ELSE LET dict == AssignRoles(AttachChatbots(dictValue, cfg.engine, s), cfg)
             sess == ResetConversationHistory(
                         [engine |-> cfg.engine,
                          proficiency_level |-> cfg.proficiency_level,
                          language |-> cfg.language,
                          chatbots |-> d,
                          session_length |-> cfg.session_length,
                          translator |-> FALSE,
                          summary_bot |-> FALSE,
                          conversation_history |-> << >>,
                          input1 |-> "", input2 |-> ""])
         IN  IF Instructed(dict)
             THEN [result |-> "ok", dict |-> dict, sess |-> sess]
             ELSE [result |-> KeyError, dict |-> dict, sess |-> NoSession]

\* DualChatbot.__init__(engine, role_dict = d, ...) making session s
Construct(s, d, cfg) ==
    /\ constructed[s] = "none"
    /\ args' = [args EXCEPT ![s] = [role_dict |-> d, cfg |-> cfg]]
    /\ LET c == NewDualChatbot(roleDicts[d], d, cfg, s)
       IN  /\ roleDicts' = [roleDicts EXCEPT ![d] = c.dict]
           /\ constructed' = [constructed EXCEPT ![s] = c.result]
           /\ sessions' = IF c.result = "ok" THEN [sessions EXCEPT ![s] = c.sess]
                          ELSE sessions
    /\ UNCHANGED << bot1_mesg, bot2_mesg, closeCalled, log, app >>

\* a predict wrapped in a handler that goes on with what it got
Swallows(response) == FALSE

\* An exception with no handler around it: nothing in step() or translate()
\* catches what a chain's predict raises, so it ends the call.
Propagates(response) == response = Failure

\* a step() that forgets to carry role2's output
DropsCarryToRole1(sess, output2) == sess

\* self.input2 = output1
CarryToRole2(sess, output1) == [sess EXCEPT !.input2 = output1]

\* self.input1 = output2
CarryToRole1(sess, output2) == [sess EXCEPT !.input1 = output2]

\* One run of step() is followed as a record m: the session and its role
\* dictionary as changed so far, the calls of the chat model so far, the
\* outputs and translations so far, and result: "running" until an exception
\* ends the call.
Running(sess, dict) ==
    [sess |-> sess, dict |-> dict, calls |-> << >>, outputs |-> << >>,
     translations |-> << >>, result |-> "running"]

\* self.chatbots[key]['chatbot'].conversation.predict(input=...) and the two
\* statements after it: the chain saves the turn to the bot's memory when the
\* model answers, the answer is appended to conversation_history and carried
\* to the other bot. A bot that was never instructed has no conversation.
Speak(m, key, response) ==
    LET bot == m.dict[key].chatbot
        input == IF key = "role1" THEN m.sess.input1 ELSE m.sess.input2
        call == [svc |-> "generate", role |-> key, builtBy |-> bot.builtBy,
                 input |-> input, output |-> response]
        said == [m.sess EXCEPT !.conversation_history =
                     Append(@, [bot |-> m.dict[key].name, text |-> response])]
    IN  IF m.result # "running" THEN m
        ELSE IF ~HasConversation(bot) THEN [m EXCEPT !.result = "AttributeError"]
        ELSE IF Propagates(response)
        THEN [m EXCEPT !.calls = Append(@, call), !.result = "GenerationFailure"]
        ELSE [m EXCEPT !.calls = Append(@, call),
                       !.dict[key].chatbot.memory = Append(@, << input, response >>),
                       !.outputs = Append(@, response),
                       !.sess = IF key = "role1" THEN CarryToRole2(said, response)
                                                 ELSE CarryToRole1(said, response)]

\* the label alone
EnglishDropsMessage(message) == << "Translation: " >>

\* 'Translation: ' + message
EnglishTranslation(message) == << "Translation: ", message >>

\* DualChatbot.translate(message): no call for English; otherwise a new
\* translator and one call of it
Translate(m, message, response) ==
    LET call == [svc |-> "translate", role |-> "translator", builtBy |-> "none",
                 input |-> message, output |-> response]
    IN  IF m.result # "running" THEN m
        ELSE IF m.sess.language = "English"
        THEN [m EXCEPT !.translations = Append(@, EnglishTranslation(message))]
        ELSE IF m.sess.engine # "OpenAI" THEN [m EXCEPT !.result = KeyError]
        ELSE IF Propagates(response)
        THEN [m EXCEPT !.sess.translator = TRUE, !.calls = Append(@, call),
                       !.result = "TranslationFailure"]
        ELSE [m EXCEPT !.sess.translator = TRUE, !.calls = Append(@, call),
                       !.translations = Append(@, << response >>)]

\* the two translate calls of step(), in order
TranslateBoth(m, r3, r4) ==
    IF m.result # "running" THEN m
    ELSE LET m3 == Translate(m, m.outputs[1], r3)
         IN  IF m3.result # "running" THEN m3 ELSE Translate(m3, m3.outputs[2], r4)

\* return output1, output2, translate1, translate2
Return(m) == IF m.result = "running" THEN [m EXCEPT !.result = "ok"] ELSE m

\* the body of DualChatbot.step with the chat model's four answers r
StepBody(sess, dict, r) ==
    Return(TranslateBoth(Speak(Speak(Running(sess, dict), "role1", r[1]), "role2", r[2]),
                         r[3], r[4]))

\* The answers the chat model can give in one step() of a session, each an
\* utterance or a failure. An answer that is never asked for (after a failed
\* call, from a bot with no conversation, for English) is written as Failure.
Answers(sess, dict, utterances) ==
    LET ask1 == HasConversation(dict.role1.chatbot)
        ask2 == HasConversation(dict.role2.chatbot)
        ask3 == sess.language # "English"
        A1 == IF ask1 THEN utterances \cup {Failure} ELSE {Failure}
        A2(g1) == IF Propagates(g1) \/ ~ask1 \/ ~ask2 THEN {Failure}
                  ELSE utterances \cup {Failure}
        A3(g1, g2) == IF Propagates(g1) \/ Propagates(g2) \/ ~ask1 \/ ~ask2 \/ ~ask3
                      THEN {Failure} ELSE Translations \cup {Failure}
        A4(g1, g2, t1) == IF Propagates(t1) THEN {Failure} ELSE A3(g1, g2)
    IN  UNION { UNION { UNION { { << g1, g2, t1, t2 >> : t2 \in A4(g1, g2, t1) } :
                    t1 \in A3(g1, g2) } : g2 \in A2(g1) } : g1 \in A1 }

\* a step() that refuses once close() was tried
RejectsClosed(sess, closed) == ~closed

\* a step() that refuses after the exchange count of a debate
CapsAtExchangeCount(sess, closed) ==
    Len(sess.conversation_history)
        < 2 * exchange_counts_dict[sess.session_length]["Debate"]

\* step() starts with the first predict: no check of a round count or of a
\* closed flag comes before it
StepAccepted(sess, closed) == TRUE

\* a store that keeps the latest message only
ReplaceMesg(list, mesg) == << mesg >>

\* st.session_state.bot1_mesg.append(mesg_1)
AppendMesg(list, mesg) == Append(list, mesg)

\* the caller's mesg_1 / mesg_2 of one returned step
Mesg(m, key, i) ==
    [role |-> m.dict[key].name, content |-> m.outputs[i], translation |-> m.translations[i]]

\* One call of step() on session s, and the caller's two appends when it
\* returns. limit bounds the calls per session.
Step(s, limit, utterances) ==
    /\ constructed[s] = "ok"
    /\ Len(log[s]) < limit
    /\ \E r \in Answers(sessions[s], roleDicts[sessions[s].chatbots], utterances) :
       \E m \in { IF StepAccepted(sessions[s], closeCalled[s])
                  THEN StepBody(sessions[s], roleDicts[sessions[s].chatbots], r)
                  ELSE [Running(sessions[s], roleDicts[sessions[s].chatbots])
                            EXCEPT !.result = "Rejected"] } :
             /\ sessions' = [sessions EXCEPT ![s] = m.sess]
             /\ roleDicts' = [roleDicts EXCEPT ![sessions[s].chatbots] = m.dict]
             /\ log' = [log EXCEPT ![s] = Append(@,
                    [closed |-> closeCalled[s], calls |-> m.calls, result |-> m.result])]
             /\ IF m.result = "ok"
                THEN /\ bot1_mesg' = [bot1_mesg EXCEPT ![s] = AppendMesg(@, Mesg(m, "role1", 1))]
                     /\ bot2_mesg' = [bot2_mesg EXCEPT ![s] = AppendMesg(@, Mesg(m, "role2", 2))]
                ELSE UNCHANGED << bot1_mesg, bot2_mesg >>
    /\ UNCHANGED << constructed, closeCalled, args, app >>

\* DualChatbot defines no close(): the call raises AttributeError and leaves
\* the object as it was. closeCalled remembers that the caller tried.
Close(s) ==
    /\ constructed[s] = "ok"
    /\ ~closeCalled[s]
    /\ closeCalled' = [closeCalled EXCEPT ![s] = TRUE]
    /\ UNCHANGED << roleDicts, sessions, constructed, bot1_mesg, bot2_mesg, args, log, app >>

\* ------------------------------------------------------------ the caller

\* MAX_EXCHANGE_COUNTS of app.py
MAX_EXCHANGE_COUNTS ==
    [Short |-> [Conversation |-> 8, Debate |-> 4],
     Long |-> [Conversation |-> 16, Debate |-> 8]]

\* range(MAX_EXCHANGE_COUNTS[session_length][learning_mode]): the number of
\* step() calls of the generate loop
LoopBound(cfg) == MAX_EXCHANGE_COUNTS[cfg.session_length][cfg.learning_mode]

\* ------------------------------------------------------------ app.py
\* One run of the script is one action. What a run displays (messages, audio,
\* widget keys) is left out; what it keeps in st.session_state is modelled.

\* DualChatbot.summary(script): a new summary bot and one call of the chat
\* model over the language, the proficiency level and the script
Summary(sess, script, response) ==
    LET call == [svc |-> "summary", src_lang |-> sess.language,
                 proficiency |-> sess.proficiency_level,
                 script |-> script, output |-> response]
    IN  IF sess.engine # "OpenAI"
        THEN [sess |-> sess, calls |-> << >>, result |-> KeyError]
        ELSE [sess |-> [sess EXCEPT !.summary_bot = TRUE], calls |-> << call >>,
              result |-> IF Propagates(response) THEN "SummaryFailure" ELSE "ok"]

\* mesg['role'] + ': ' + mesg['content']
ScriptLine(mesg) == << mesg.role, ": ", mesg.content >>

\* scripts: for each pair of zip(mesg1_list, mesg2_list), role1's line and
\* then role2's
Scripts(mesg1_list, mesg2_list) ==
    LET n == IF Len(mesg1_list) < Len(mesg2_list) THEN Len(mesg1_list)
             ELSE Len(mesg2_list)
    IN  [k \in 1..(2 * n) |->
            ScriptLine(IF k % 2 = 1 THEN mesg1_list[(k + 1) \div 2]
                       ELSE mesg2_list[k \div 2])]

\* a script that asks for the summary in every run
AlwaysSummarizes(ss) == TRUE

\* "summary" not in st.session_state
SummaryNeeded(ss) == "summary" \notin DOMAIN ss

\* The generate loop is followed as a record g: the session and its role
\* dictionary, one entry per step() call, the two message lists, and raised
\* once a step() has raised.
Generating(sess, dict) ==
    [sess |-> sess, dict |-> dict, entries |-> << >>,
     mesg1 |-> << >>, mesg2 |-> << >>, raised |-> FALSE]

\* one pass of the loop: step() with the chat model's answers r, then the two
\* appends; an exception of step() ends the run
Exchange(g, r) ==
    LET m == IF StepAccepted(g.sess, FALSE) THEN StepBody(g.sess, g.dict, r)
             ELSE [Running(g.sess, g.dict) EXCEPT !.result = "Rejected"]
        e == [closed |-> FALSE, calls |-> m.calls, result |-> m.result]
        h == [g EXCEPT !.sess = m.sess, !.dict = m.dict, !.entries = Append(@, e)]
    IN  IF m.result = "ok"
        THEN [h EXCEPT !.mesg1 = AppendMesg(@, Mesg(m, "role1", 1)),
                       !.mesg2 = AppendMesg(@, Mesg(m, "role2", 2))]
        ELSE [h EXCEPT !.raised = TRUE]

\* every way passes i..n of the loop can go
RECURSIVE Exchanges(_, _, _)
Exchanges(g, i, n) ==
    IF i > n \/ g.raised THEN {g}
    ELSE UNION { Exchanges(Exchange(g, r), i + 1, n) :
                   r \in Answers(g.sess, g.dict,
                                 IF i <= VariedRounds THEN Utterances ELSE OneUtterance) }

\* the three buttons of the block under the conversation
Pressed(ss, button) ==
    IF button = "Translate to English"
    THEN [ss EXCEPT !.translate_flag = TRUE, !.batch_flag = TRUE]
    ELSE IF button = "Show original"
    THEN [ss EXCEPT !.translate_flag = FALSE, !.batch_flag = TRUE]
    ELSE IF button = "Play audio"
    THEN [ss EXCEPT !.audio_flag = TRUE, !.batch_flag = TRUE]
    ELSE ss

\* first_time_exec is set to False when it is True and is False otherwise
FirstTimeExec(ss) == [ss EXCEPT !.first_time_exec = FALSE]

\* the block of app.py that runs when 'dual_chatbots' is in st.session_state:
\* the buttons, first_time_exec, the scripts and the summary
Compile(ss, sess, mesg1_list, mesg2_list, button, response) ==
    LET ss1 == FirstTimeExec(Pressed(ss, button))
        c == Summary(sess, Scripts(mesg1_list, mesg2_list), response)
    IN  IF ~SummaryNeeded(ss1)
        THEN [ss |-> ss1, sess |-> sess, calls |-> << >>, result |-> "ok"]
        ELSE IF c.result = "ok"
        THEN [ss |-> ("summary" :> response) @@ ss1, sess |-> c.sess,
              calls |-> c.calls, result |-> "ok"]
        ELSE [ss |-> ss1, sess |-> c.sess, calls |-> c.calls, result |-> c.result]

\* what the chat model can answer to the summary call of a run, Failure when
\* the run does not ask
SummaryAnswers(ss) == IF SummaryNeeded(ss) THEN Summaries \cup {Failure} ELSE {Failure}

\* the role dictionary the sidebar builds for the learning mode
SidebarDict(cfg) == IF cfg.learning_mode = "Conversation" THEN "d1" ELSE "d2"

\* the entry of runs for one run
RunEntry(button, stored, constructions, entries, calls, result) ==
    [button |-> button, stored |-> stored, constructions |-> constructions,
     steps |-> Len(entries), summary |-> calls, result |-> result]

\* A run of app.py started by the Generate button while no 'dual_chatbots' is
\* stored: the DualChatbot is constructed over the sidebar's role dictionary
\* and stored, the loop calls step(), and the block under the conversation
\* follows in the same run.
GenerateRun(s, cfg) ==
    /\ Len(runs) < MaxRuns
    /\ page.generate
    /\ "dual_chatbots" \notin DOMAIN session_state
    /\ constructed[s] = "none"
    /\ LET d == SidebarDict(cfg)
           c == NewDualChatbot(InitialRoleDict(d), d, cfg, s)
           ss0 == ("first_time_exec" :> TRUE) @@ session_state
           ss1 == ("dual_chatbots" :> s) @@ ss0
       IN  /\ args' = [args EXCEPT ![s] = [role_dict |-> d, cfg |-> cfg]]
           /\ constructed' = [constructed EXCEPT ![s] = c.result]
           /\ IF c.result # "ok"
              THEN /\ roleDicts' = [roleDicts EXCEPT ![d] = c.dict]
                   /\ session_state' = ss0
                   /\ page' = [generate |-> TRUE, view |-> FALSE]
                   /\ runs' = Append(runs, RunEntry("Generate", FALSE, 1, << >>, << >>,
                                                    c.result))
                   /\ UNCHANGED << sessions, bot1_mesg, bot2_mesg, log >>
              ELSE \E g \in Exchanges(Generating(c.sess, c.dict), 1, LoopBound(cfg)) :
                   \E response \in (IF g.raised THEN {Failure} ELSE SummaryAnswers(ss1)) :
                   \E p \in { Compile(ss1, g.sess, g.mesg1, g.mesg2, "Generate", response) } :
                      /\ roleDicts' = [roleDicts EXCEPT ![d] = g.dict]
                      /\ log' = [log EXCEPT ![s] = g.entries]
                      /\ bot1_mesg' = [bot1_mesg EXCEPT ![s] = g.mesg1]
                      /\ bot2_mesg' = [bot2_mesg EXCEPT ![s] = g.mesg2]
                      /\ IF g.raised
                         THEN /\ sessions' = [sessions EXCEPT ![s] = g.sess]
                              /\ session_state' = ss1
                              /\ page' = [generate |-> TRUE, view |-> FALSE]
                              /\ runs' = Append(runs,
                                     RunEntry("Generate", FALSE, 1, g.entries, << >>,
                                              g.entries[Len(g.entries)].result))
                         ELSE /\ sessions' = [sessions EXCEPT ![s] = p.sess]
                              /\ session_state' = p.ss
                              /\ page' = [generate |-> TRUE, view |-> TRUE]
                              /\ runs' = Append(runs,
                                     RunEntry("Generate", FALSE, 1, g.entries, p.calls,
                                              p.result))
    /\ UNCHANGED closeCalled

\* Any other run of app.py: started by a sidebar widget ("none") or by a
\* button the last run put on the page. With no 'dual_chatbots' stored the
\* run changes nothing; with one stored, the Generate button is not looked at
\* and the block under the conversation runs.
Rerun(button) ==
    /\ Len(runs) < MaxRuns
    /\ \/ button = "none"
       \/ button = "Generate" /\ page.generate
       \/ button \in ViewButtons /\ page.view
    /\ IF "dual_chatbots" \notin DOMAIN session_state
       THEN /\ button # "Generate"
            /\ page' = [generate |-> TRUE, view |-> FALSE]
            /\ runs' = Append(runs, RunEntry(button, FALSE, 0, << >>, << >>, "ok"))
            /\ UNCHANGED << sessions, session_state >>
       ELSE LET s == session_state.dual_chatbots
            IN  \E response \in SummaryAnswers(session_state) :
                \E p \in { Compile(session_state, sessions[s], bot1_mesg[s], bot2_mesg[s],
                                   button, response) } :
                   /\ sessions' = [sessions EXCEPT ![s] = p.sess]
                   /\ session_state' = p.ss
                   /\ page' = [generate |-> FALSE, view |-> TRUE]
                   /\ runs' = Append(runs, RunEntry(button, TRUE, 0, << >>, p.calls,
                                                    p.result))
    /\ UNCHANGED << roleDicts, constructed, bot1_mesg, bot2_mesg, closeCalled, args, log >>

\* ------------------------------------------------------------ specifications

\* the configurations of Spec and SpecTwo: a debate in English, one in German,
\* and one the constructor refuses
CoreConfigs ==
    { cfg \in AllConfigs :
        /\ cfg.engine = "OpenAI"
        /\ cfg.learning_mode = "Debate"
        /\ cfg.proficiency_level \in {"Beginner", "Native"}
        /\ cfg.proficiency_level = "Native" => cfg.language = "German"
        /\ cfg.session_length = "Short" }

\* Spec: session A is constructed over the first role dictionary, stepped and
\* closed by its caller, while a second session B is constructed over the same
\* or the other role dictionary.
Next ==
    \/ \E cfg \in CoreConfigs : Construct("A", "d1", cfg)
    \/ \E d \in Dicts, cfg \in CoreConfigs : Construct("B", d, cfg)
    \/ Step("A", MaxSteps, Utterances)
    \/ Close("A")

Spec == Init /\ [][Next]_vars

\* SpecTwo: two sessions, both stepped, in any interleaving.
NextTwo ==
    \/ \E s \in Sessions, d \in Dicts, cfg \in CoreConfigs : Construct(s, d, cfg)
    \/ \E s \in Sessions : Step(s, TwoSteps, OneUtterance)

SpecTwo == Init /\ [][NextTwo]_vars

\* SpecCfg: one session, every combination of the constructor's arguments.
NextCfg ==
    \/ \E d \in Dicts, cfg \in AllConfigs : Construct("A", d, cfg)
    \/ Step("A", CfgSteps, OneUtterance)

SpecCfg == Init /\ [][NextCfg]_vars

\* SpecLong: one session of the shortest exchange count, stepped past it.
LongConfigs ==
    { cfg \in AllConfigs :
        /\ cfg.engine = "OpenAI"
        /\ cfg.learning_mode = "Debate"
        /\ cfg.proficiency_level = "Beginner"
        /\ cfg.session_length = "Short" }

NextLong ==
    \/ \E d \in Dicts, cfg \in LongConfigs : Construct("A", d, cfg)
    \/ Step("A", LongSteps, OneUtterance)

SpecLong == Init /\ [][NextLong]_vars

\* SpecApp: one browser session of app.py, with the sidebar's two learning
\* modes and two session lengths, in English or German, for a beginner.
AppConfigs ==
    { cfg \in AllConfigs :
        /\ cfg.engine = "OpenAI"
        /\ cfg.learning_mode \in {"Conversation", "Debate"}
        /\ cfg.session_length \in {"Short", "Long"}
        /\ cfg.proficiency_level = "Beginner" }

NextApp ==
    \/ \E cfg \in AppConfigs : GenerateRun("A", cfg)
    \/ \E button \in {"none", "Generate"} \cup ViewButtons : Rerun(button)

SpecApp == Init /\ [][NextApp]_vars

\* ------------------------------------------------------------ claims

\* the entries of a session's log whose step() returned
Returned(entries) == SelectSeq(entries, LAMBDA e : e.result = "ok")

\* the chat model answered call c
Answered(c) == c.output # Failure

\* C1: carry-input threading. In the first step() of a session role1 is asked
\* with "Start the conversation."; in every round role2 is asked second, only
\* after role1 has answered in that round, and with role1's answer of that round
\* as its input; and role1's input in round i+1 is role2's answer of round i.
CarryInputThreading ==
    \A s \in Sessions : \A i \in 1..Len(log[s]) :
        LET c == log[s][i].calls
        IN  /\ c # << >> =>
                /\ c[1].svc = "generate" /\ c[1].role = "role1"
                /\ i = 1 => c[1].input = "Start the conversation."
            /\ \A j \in 1..Len(c) : c[j].role = "role2" =>
                /\ j = 2
                /\ Answered(c[1])
                /\ c[2].svc = "generate"
                /\ c[2].input = c[1].output
            /\ Len(c) >= 2 => c[2].role = "role2"
            /\ (i > 1 /\ c # << >> /\ Len(log[s][i - 1].calls) >= 2
                      /\ Answered(log[s][i - 1].calls[2]))
                => c[1].input = log[s][i - 1].calls[2].output

\* C1 witness: two full rounds of A; role2 said u2 in the first, and role1 was
\* asked with u2 in the second
CarryInputThreadingWitness ==
    /\ Len(log["A"]) = 2
    /\ log["A"][1].result = "ok" /\ log["A"][2].result = "ok"
    /\ log["A"][1].calls[1].output = "u1"
    /\ log["A"][1].calls[2].output = "u2"
    /\ log["A"][2].calls[1].input = "u2"
    /\ log["A"][2].calls[2].input = log["A"][2].calls[1].output

Said(e, key) == IF key = "role1" THEN e.calls[1].output ELSE e.calls[2].output

\* C3: transcript growth. The transcript is empty until the first step()
\* returns; after k returned step() calls it holds k entries, the i-th with
\* role1's and role2's utterance of the i-th returned step, so later steps
\* neither change nor remove an earlier entry.
TranscriptGrowth ==
    \A s \in Sessions :
        LET done == Returned(log[s])
        IN  /\ Len(bot1_mesg[s]) = Len(done)
            /\ Len(bot2_mesg[s]) = Len(done)
            /\ \A i \in 1..Len(done) :
                /\ bot1_mesg[s][i].content = Said(done[i], "role1")
                /\ bot2_mesg[s][i].content = Said(done[i], "role2")
            /\ constructed[s] = "ok" =>
                   Len(sessions[s].conversation_history) >= 2 * Len(done)

\* C3 witness: two returned steps of A, with different utterances in the two
\* transcript entries
TranscriptGrowthWitness ==
    /\ Len(bot1_mesg["A"]) = 2 /\ Len(bot2_mesg["A"]) = 2
    /\ bot1_mesg["A"][1].content = "u1" /\ bot1_mesg["A"][2].content = "u2"
    /\ bot2_mesg["A"][1].content = "u2" /\ bot2_mesg["A"][2].content = "u1"

\* C4: construction validation. A constructor call with a learning mode
\* outside {Conversation, Debate}, a proficiency level outside {Beginner,
\* Intermediate, Advanced} or a session length outside {Short, Long} raises,
\* and no session comes of it: there is no object to step, nothing is asked
\* of the chat model and the transcript stays empty.
ConstructionValidation ==
    \A s \in Sessions :
        (constructed[s] # "none" /\ ~ValidConfig(args[s].cfg)) =>
            /\ constructed[s] = KeyError
            /\ sessions[s].engine = "unset"
            /\ log[s] = << >>
            /\ bot1_mesg[s] = << >> /\ bot2_mesg[s] = << >>
            /\ \A k \in {"role1", "role2"} :
                   "chatbot" \in DOMAIN roleDicts[args[s].role_dict][k] =>
                       roleDicts[args[s].role_dict][k].chatbot.memory = << >>

\* C4 witness: the constructor was called with an unknown proficiency level
\* and everything else in order, and raised
ConstructionValidationWitness ==
    /\ constructed["A"] = KeyError
    /\ args["A"].role_dict = "d1"
    /\ args["A"].cfg.engine = "OpenAI"
    /\ args["A"].cfg.learning_mode = "Conversation"
    /\ args["A"].cfg.proficiency_level = "Native"
    /\ args["A"].cfg.session_length = "Short"

\* C5 as stated: session isolation. A step() on a session asks only the two
\* agents that session's construction made, whatever role dictionaries the
\* sessions were constructed from.
SessionIsolation ==
    \A s \in Sessions : \A i \in 1..Len(log[s]) : \A j \in 1..Len(log[s][i].calls) :
        log[s][i].calls[j].svc = "generate" => log[s][i].calls[j].builtBy = s

\* the calls of log entry e to service svc
CallsTo(e, svc) == SelectSeq(e.calls, LAMBDA c : c.svc = svc)

\* C6: fail-fast. When a call of the chat model fails during step(), the step
\* ends with that failure: the failed call is the last call of the step, no
\* agent is asked twice in one step, and the step does not return.
FailFast ==
    \A s \in Sessions : \A i \in 1..Len(log[s]) :
        LET e == log[s][i]
        IN  /\ \A j \in 1..Len(e.calls) : ~Answered(e.calls[j]) =>
                /\ j = Len(e.calls)
                /\ e.result = IF e.calls[j].svc = "generate"
                              THEN "GenerationFailure" ELSE "TranslationFailure"
            /\ \A j, k \in 1..Len(e.calls) :
                   (e.calls[j].svc = "generate" /\ e.calls[j].role = e.calls[k].role)
                       => j = k
            /\ e.result = "ok" => \A j \in 1..Len(e.calls) : Answered(e.calls[j])

\* C6 witness: role1's call failed in A's first step and role2's in its second
FailFastWitness ==
    /\ Len(log["A"]) = 2
    /\ Len(log["A"][1].calls) = 1 /\ ~Answered(log["A"][1].calls[1])
    /\ Len(log["A"][2].calls) = 2 /\ ~Answered(log["A"][2].calls[2])
    /\ log["A"][2].result = "GenerationFailure"

\* C7: English short-circuit. In an English session translate makes no call
\* of the chat model and returns the label followed by the utterance itself;
\* in any other language every translate makes one call, also for an utterance
\* translated before, so a returned step made two, of output1 and of output2.
EnglishShortCircuit ==
    \A s \in Sessions : constructed[s] = "ok" =>
        LET done == Returned(log[s])
        IN  /\ sessions[s].language = "English" =>
                /\ \A i \in 1..Len(log[s]) : CallsTo(log[s][i], "translate") = << >>
                /\ \A i \in 1..Len(bot1_mesg[s]) :
                    /\ bot1_mesg[s][i].translation
                           = << "Translation: ", bot1_mesg[s][i].content >>
                    /\ bot2_mesg[s][i].translation
                           = << "Translation: ", bot2_mesg[s][i].content >>
            /\ sessions[s].language # "English" =>
                \A i \in 1..Len(done) :
                    LET t == CallsTo(done[i], "translate")
                    IN  /\ Len(t) = 2
                        /\ t[1].input = Said(done[i], "role1")
                        /\ t[2].input = Said(done[i], "role2")
                        /\ bot1_mesg[s][i].translation = << t[1].output >>
                        /\ bot2_mesg[s][i].translation = << t[2].output >>

\* C7 witness: a returned step of an English session and one of a German
\* session in which both agents said the same
EnglishShortCircuitWitness ==
    /\ constructed["A"] = "ok" /\ constructed["B"] = "ok"
    /\ sessions["A"].language = "English" /\ sessions["B"].language = "German"
    /\ Len(bot1_mesg["A"]) = 1 /\ Len(bot1_mesg["B"]) = 1
    /\ bot1_mesg["B"][1].content = bot2_mesg["B"][1].content
    /\ Len(log["B"][1].calls) = 4

\* the values substituted for field k in a prompt
Substituted(prompt, k) == { prompt[i].v : i \in { j \in 1..Len(prompt) : prompt[j].k = k } }

\* C8: exchange-count lookup. The count is 8 for Short/Conversation, 4 for
\* Short/Debate, 16 for Long/Conversation and 8 for Long/Debate, and the count
\* in each agent's instruction is the number of step() calls of the caller's
\* loop for the same configuration.
ExchangeCountLookup ==
    /\ LoopBound([session_length |-> "Short", learning_mode |-> "Conversation"]) = 8
    /\ LoopBound([session_length |-> "Short", learning_mode |-> "Debate"]) = 4
    /\ LoopBound([session_length |-> "Long", learning_mode |-> "Conversation"]) = 16
    /\ LoopBound([session_length |-> "Long", learning_mode |-> "Debate"]) = 8
    /\ \A s \in Sessions : constructed[s] = "ok" =>
           \A k \in {"role1", "role2"} :
               Substituted(roleDicts[sessions[s].chatbots][k].chatbot.conversation.prompt,
                           "exchange_counts")
                   = { ToString(LoopBound(args[s].cfg)) }

\* C8 witness: a session constructed for a short debate
ExchangeCountLookupWitness ==
    /\ constructed["A"] = "ok"
    /\ args["A"].cfg.session_length = "Short"
    /\ args["A"].cfg.learning_mode = "Debate"
    /\ Len(log["A"]) = 1

\* C9: no hard cap. step() is accepted after any number of earlier step()
\* calls, more than the exchange count among them: it is never refused, it
\* asks role1 and then role2, and when every call answers it returns and
\* extends the transcript.
NoHardCap ==
    \A s \in Sessions : \A i \in 1..Len(log[s]) :
        LET e == log[s][i]
        IN  /\ e.result \in {"ok", "GenerationFailure", "TranslationFailure"}
            /\ e.calls # << >> /\ e.calls[1].role = "role1"
            /\ Answered(e.calls[1]) => (Len(e.calls) >= 2 /\ e.calls[2].role = "role2")
            /\ (\A j \in 1..Len(e.calls) : Answered(e.calls[j])) => e.result = "ok"
            /\ Len(bot1_mesg[s]) = Len(Returned(log[s]))

\* C9 witness: a fifth step of a session whose exchange count is 4 returned,
\* and the transcript has five entries
NoHardCapWitness ==
    /\ constructed["A"] = "ok"
    /\ LoopBound(args["A"].cfg) = 4
    /\ Len(log["A"]) = 5
    /\ log["A"][5].result = "ok"
    /\ Len(bot1_mesg["A"]) = 5
    /\ Len(sessions["A"].conversation_history) = 10

\* the replacement fields that read the role dictionary
RoleFields == {"role.name", "role.action", "oppo_role.name", "oppo_role.action"}

\* the prompt without its last clause (three pieces)
Framing(prompt) == SubSeq(prompt, 1, Len(prompt) - 3)

\* the last clause of the prompt
LastClause(prompt) == SubSeq(prompt, Len(prompt) - 2, Len(prompt))

\* C10: mirror instructions. Construction instructs role1 as the starter and
\* role2 not, each with the other as opponent. The two instructions have the
\* same pieces up to the last clause, but that each names its own role where
\* the other names its opponent; role1's last clause is the leading one and
\* role2's the waiting one. Compiling a bot's instruction again from its
\* settings gives the instruction it has.
MirrorInstructions ==
    \A s \in Sessions : constructed[s] = "ok" =>
        LET dict == roleDicts[sessions[s].chatbots]
            b1 == dict.role1.chatbot
            b2 == dict.role2.chatbot
            p1 == b1.conversation.prompt
            p2 == b2.conversation.prompt
            f1 == Framing(p1)
            f2 == Framing(p2)
        IN  /\ b1.starter /\ ~b2.starter
            /\ b1.role = "role1" /\ b1.oppo_role = "role2"
            /\ b2.role = "role2" /\ b2.oppo_role = "role1"
            /\ Len(f1) = Len(f2)
            /\ \A i \in 1..Len(f1) :
                /\ f1[i].k = f2[i].k
                /\ f1[i].k \notin RoleFields => f1[i].v = f2[i].v
                /\ f1[i].k = "role.name" =>
                       (f1[i].v = dict.role1.name /\ f2[i].v = dict.role2.name)
                /\ f1[i].k = "oppo_role.name" =>
                       (f1[i].v = dict.role2.name /\ f2[i].v = dict.role1.name)
                /\ f1[i].k = "role.action" =>
                       (f1[i].v = dict.role1.action /\ f2[i].v = dict.role2.action)
                /\ f1[i].k = "oppo_role.action" =>
                       (f1[i].v = dict.role2.action /\ f2[i].v = dict.role1.action)
            /\ LastClause(p1) = << Lit("You are leading the"),
                                   Sub("learning_mode", args[s].cfg.learning_mode), Lit(".") >>
            /\ LastClause(p2) = << Lit("Wait for the"),
                                   Sub("oppo_role.name", dict.role1.name), Lit("'s statement.") >>
            /\ \A k \in {"language", "scenario", "proficiency_level"} :
                   /\ Substituted(p1, k) = { args[s].cfg[k] }
                   /\ Substituted(p2, k) = { args[s].cfg[k] }
            /\ SpecifySystemMessage(b1, dict.role1, dict.role2).prompt = p1
            /\ SpecifySystemMessage(b2, dict.role2, dict.role1).prompt = p2

\* C10 witness: a conversation session over the dictionary with actions, after
\* a returned step
MirrorInstructionsWitness ==
    /\ constructed["A"] = "ok"
    /\ args["A"].role_dict = "d1"
    /\ args["A"].cfg.learning_mode = "Conversation"
    /\ args["A"].cfg.proficiency_level = "Intermediate"
    /\ Len(bot1_mesg["A"]) = 1

\* the turns the chat model answered to role key in a session's step() calls
AnsweredTurns(entries, key) ==
    LET Turns(e) == SelectSeq(e.calls,
                        LAMBDA c : c.svc = "generate" /\ c.role = key /\ Answered(c))
        RECURSIVE Collect(_)
        Collect(i) == IF i > Len(entries) THEN << >>
                      ELSE [j \in 1..Len(Turns(entries[i])) |->
                               << Turns(entries[i])[j].input, Turns(entries[i])[j].output >>]
                           \o Collect(i + 1)
    IN  Collect(1)

\* C12 as stated: agent state ownership. Each agent's memory is the turns it
\* answered, in order, one per answered call and none from the other agent's
\* calls; its instruction and starter flag stay as construction set them; and
\* after k returned step() calls each agent's memory holds exactly k turns.
AgentStateOwnership ==
    \A s \in Sessions : constructed[s] = "ok" =>
        LET dict == roleDicts[sessions[s].chatbots]
        IN  \A key \in {"role1", "role2"} :
                LET bot == dict[key].chatbot
                    oppo == IF key = "role1" THEN "role2" ELSE "role1"
                IN  /\ bot.memory = AnsweredTurns(log[s], key)
                    /\ bot.starter = (key = "role1")
                    /\ bot.conversation.prompt
                           = SpecifySystemMessage(bot, dict[key], dict[oppo]).prompt
                    /\ Len(bot.memory) = Len(Returned(log[s]))

\* C13 as stated: no half-completed round. Whatever calls failed in earlier
\* step() calls, conversation_history has an even number of entries, role1's
\* and role2's in turn starting with role1's, the two agents' memories have the
\* same number of turns, and each role1 entry after the first was generated
\* from the role2 entry before it.
NoHalfCompletedRound ==
    \A s \in Sessions : constructed[s] = "ok" =>
        LET dict == roleDicts[sessions[s].chatbots]
            h == sessions[s].conversation_history
            m1 == dict.role1.chatbot.memory
            m2 == dict.role2.chatbot.memory
        IN  /\ Len(h) % 2 = 0
            /\ \A i \in 1..Len(h) :
                   h[i].bot = IF i % 2 = 1 THEN dict.role1.name ELSE dict.role2.name
            /\ Len(m1) = Len(m2)
            /\ \A i \in 2..Len(m1) :
                   2 * i - 1 <= Len(h) =>
                       /\ m1[i][2] = h[2 * i - 1].text
                       /\ m1[i][1] = h[2 * i - 2].text
\* the runs of app.py that called summary()
Summarizing == { i \in 1..Len(runs) : runs[i].summary # << >> }

\* the runs of app.py whose summary() call returned
Summarized == { i \in Summarizing : Answered(runs[i].summary[1]) }

\* the rounds of session s that step() returned, in order, as lines
\* "<role name>: <utterance>", role1's before role2's
FlatTranscript(s) ==
    LET done == Returned(log[s])
        dict == roleDicts[sessions[s].chatbots]
    IN  [k \in 1..(2 * Len(done)) |->
            IF k % 2 = 1
            THEN << dict.role1.name, ": ", Said(done[(k + 1) \div 2], "role1") >>
            ELSE << dict.role2.name, ": ", Said(done[k \div 2], "role2") >>]

GenerateOnce ==
    /\ \A i \in 1..Len(runs) :
           (runs[i].constructions > 0 \/ runs[i].steps > 0) =>
               /\ ~runs[i].stored
               /\ runs[i].button = "Generate"
               /\ \A j \in 1..(i - 1) : runs[j].constructions = 0
    /\ \A s \in Sessions : Len(bot1_mesg[s]) = Len(bot2_mesg[s])
    /\ \A i \in Summarizing :
           Len(bot1_mesg[session_state.dual_chatbots])
               = LoopBound(args[session_state.dual_chatbots].cfg)
====
